---- MODULE Spec2Model ----
(***************************************************************************)
(* A model of the llamaindex_demo clients: the streaming chat hook         *)
(* (frontend/hooks/use-chat.ts, frontend/components/chat.tsx and           *)
(* chat-message.tsx), the React page with its file list and upload         *)
(* (frontend/app/page.tsx, components/file-list.tsx, file-upload.tsx) and  *)
(* the static client (frontend/static/app.js), with the server they talk   *)
(* to as spec.md describes it: registry, vector index, query orchestrator. *)
(***************************************************************************)
EXTENDS Integers, Sequences, FiniteSets, TLC

(* ---------------------------- bounds ---------------------------------- *)

\* Number of sendMessage calls that pass the guard in one behaviour.
MaxCalls == 3

\* Largest value Date.now() returns in one behaviour.
MaxClock == 1

\* Number of files uploaded in one behaviour; file ids are 1..MaxFiles.
MaxFiles == 2

\* Number of GET /api/files/list requests of one client in flight at a time.
MaxLoads == 2

\* Largest number of chunks one document is cut into.
MaxChunks == 2

\* Number of queries the server receives in one behaviour of SpecServer.
MaxQueries == 2

\* Number of sendMessage calls in one behaviour of SpecStream.
MaxStreams == 2

(* ------------------------- stream alphabet ---------------------------- *)

\* The payload of a chunk that carries no event.
NoEv == [type |-> "none", delta |-> "", sources |-> <<>>, message |-> ""]

\* JSON envelopes {type, data}: data.delta, data.sources, data.message.
ContentEv(d) == [type |-> "content", delta |-> d, sources |-> <<>>, message |-> ""]

SourcesEv(s) == [type |-> "sources", delta |-> "", sources |-> s, message |-> ""]

ErrorEv(m) == [type |-> "error", delta |-> "", sources |-> <<>>, message |-> m]

\* The characters of a response body: the newline, the "data: " prefix, a
\* blank, a character of some other text, a JSON payload and a payload that
\* JSON.parse rejects.
NL == [k |-> "nl", ev |-> NoEv]

DATA == [k |-> "data", ev |-> NoEv]

WS == [k |-> "ws", ev |-> NoEv]

JUNK == [k |-> "junk", ev |-> NoEv]

BADJSON == [k |-> "badjson", ev |-> NoEv]

JSON(ev) == [k |-> "json", ev |-> ev]

\* A newline-terminated "data: " line carrying the event ev.
DataLine(ev) == <<DATA, JSON(ev), NL>>

\* Source records {filename, text, score}; scores are in percent.
SrcLow == [filename |-> "f1.txt", text |-> "t1", score |-> 20]

SrcHigh == [filename |-> "f2.txt", text |-> "t2", score |-> 90]

\* A second source with the score of SrcHigh.
SrcTie == [filename |-> "f3.txt", text |-> "t3", score |-> 90]

\* The array of a sources event, ranked by score as the server sends it.
SrcArray == <<SrcHigh, SrcLow>>

SourcePool == {SrcLow, SrcHigh, SrcTie}

\* The arrays a sources event can carry: the sources of the pool, each at most
\* once, in every order.
Orders ==
  {s \in UNION {[1..n -> SourcePool] : n \in 0..Cardinality(SourcePool)} :
     \A i, j \in 1..Len(s) : i # j => s[i] # s[j]}

\* Response bodies with a content event and a sources event, either first.
RenderResponses ==
  {DataLine(ContentEv("a")) \o DataLine(SourcesEv(s)) : s \in Orders}
    \cup {DataLine(SourcesEv(s)) \o DataLine(ContentEv("a")) : s \in Orders}

\* Response bodies of POST /api/chat/query/stream. RespStream carries a content
\* event, then an error event, then the sources event.
RespStream ==
  DataLine(ContentEv("a")) \o DataLine(ErrorEv("boom")) \o DataLine(SourcesEv(SrcArray))

ChatResponses == {RespStream}

\* A body that ends without the newline of its last "data: " line.
RespUnterminated == DataLine(ContentEv("a")) \o <<DATA, JSON(ContentEv("b"))>>

\* A body with an empty line, a line of blanks, a JSON line without the
\* prefix and a "data: " line that is not JSON, between two content events
\* and before the sources event.
RespNoise ==
  DataLine(ContentEv("a"))
    \o <<NL, WS, NL, JSON(ContentEv("x")), NL, DATA, BADJSON, NL>>
    \o DataLine(ContentEv("b")) \o DataLine(SourcesEv(SrcArray))

StreamResponses == {RespUnterminated, RespNoise}

(* --------------------------- pure functions --------------------------- *)

\* A piece of message content: streamed text or an error suffix.
Text(d) == [t |-> "text", v |-> d]

\* `\n\n[Error: ${message}]`
ErrorText(m) == [t |-> "error", v |-> m]

\* String.prototype.trim on a text: Blank is the white-space character.
Blank == Text(" ")

RECURSIVE TrimLeft(_)
TrimLeft(s) == IF s # <<>> /\ Head(s) = Blank THEN TrimLeft(Tail(s)) ELSE s

RECURSIVE TrimRight(_)
TrimRight(s) ==
  IF s # <<>> /\ s[Len(s)] = Blank THEN TrimRight(SubSeq(s, 1, Len(s) - 1)) ELSE s

Trim(s) == TrimRight(TrimLeft(s))

\* buffer.split("\n"): the pieces between newlines, at least one piece.
RECURSIVE Split(_)
Split(s) ==
  IF \A i \in 1..Len(s) : s[i] # NL
  THEN <<s>>
  ELSE LET i == CHOOSE j \in 1..Len(s) : s[j] = NL /\ \A h \in 1..(j - 1) : s[h] # NL
       IN <<SubSeq(s, 1, i - 1)>> \o Split(SubSeq(s, i + 1, Len(s)))

\* !line.trim(): the line is empty or all blanks.
IsBlank(line) == \A i \in 1..Len(line) : line[i] = WS

\* line.startsWith("data: ")
StartsWithData(line) == Len(line) >= 1 /\ line[1] = DATA

\* JSON.parse(jsonStr): surrounding blanks are allowed, anything else than
\* one JSON value throws.
RECURSIVE StripWs(_)
StripWs(s) ==
  IF s = <<>> THEN <<>>
  ELSE IF Head(s) = WS THEN StripWs(Tail(s)) ELSE <<Head(s)>> \o StripWs(Tail(s))

JSONParse(s) ==
  LET t == StripWs(s)
  IN IF Len(t) = 1 /\ t[1].k = "json"
     THEN [ok |-> TRUE, ev |-> t[1].ev]
     ELSE [ok |-> FALSE, ev |-> NoEv]

\* prev.map(msg => msg.id === id ? { ...msg, content } : msg)
SetContent(msgs, id, c) ==
  [j \in 1..Len(msgs) |->
     IF msgs[j].id = id THEN [msgs[j] EXCEPT !.content = c] ELSE msgs[j]]

\* prev.map(msg => msg.id === id ? { ...msg, sources } : msg)
SetSources(msgs, id, s) ==
  [j \in 1..Len(msgs) |->
     IF msgs[j].id = id THEN [msgs[j] EXCEPT !.sources = s] ELSE msgs[j]]

\* The for loop body without the inner try: a "data: " line that is not JSON
\* reaches the outer catch, which appends the error to the message.
ProcessLineNoInnerTry(acc, id, line) ==
  IF IsBlank(line) \/ ~StartsWithData(line) THEN acc
  ELSE LET p == JSONParse(Tail(line))
       IN IF ~p.ok
          THEN [acc EXCEPT !.msgs =
                  [j \in 1..Len(acc.msgs) |->
                     IF acc.msgs[j].id = id
                     THEN [acc.msgs[j] EXCEPT !.content = @ \o <<ErrorText("SyntaxError")>>]
                     ELSE acc.msgs[j]]]
          ELSE IF p.ev.type = "content"
          THEN LET c == acc.cc \o <<Text(p.ev.delta)>>
               IN [acc EXCEPT !.cc = c, !.msgs = SetContent(acc.msgs, id, c)]
          ELSE IF p.ev.type = "sources"
          THEN [acc EXCEPT !.cs = p.ev.sources,
                           !.msgs = SetSources(acc.msgs, id, p.ev.sources)]
          ELSE acc

\* The body of the for loop over the complete lines of one read: acc holds
\* currentContent (cc), currentSources (cs) and the message list (msgs).
\* The error event throws inside the inner try, whose catch only logs.
ProcessLine(acc, id, line) ==
  IF IsBlank(line) \/ ~StartsWithData(line) THEN acc
  ELSE LET p == JSONParse(Tail(line))
       IN IF ~p.ok THEN acc
          ELSE IF p.ev.type = "content"
          THEN LET c == acc.cc \o <<Text(p.ev.delta)>>
               IN [acc EXCEPT !.cc = c, !.msgs = SetContent(acc.msgs, id, c)]
          ELSE IF p.ev.type = "sources"
          THEN [acc EXCEPT !.cs = p.ev.sources,
                           !.msgs = SetSources(acc.msgs, id, p.ev.sources)]
          ELSE acc

RECURSIVE ProcessLines(_, _, _)
ProcessLines(acc, id, lines) ==
  IF lines = <<>> THEN acc
  ELSE ProcessLines(ProcessLine(acc, id, Head(lines)), id, Tail(lines))

\* The sort with the comparator the other way round: a.score - b.score.
RECURSIVE InsertByScoreAscending(_, _)
InsertByScoreAscending(x, s) ==
  IF s = <<>> THEN <<x>>
  ELSE IF Head(s).score <= x.score THEN <<Head(s)>> \o InsertByScoreAscending(x, Tail(s))
  ELSE <<x>> \o s

\* Array.prototype.sort((a, b) => b.score - a.score): stable, descending.
RECURSIVE InsertByScore(_, _)
InsertByScore(x, s) ==
  IF s = <<>> THEN <<x>>
  ELSE IF Head(s).score >= x.score THEN <<Head(s)>> \o InsertByScore(x, Tail(s))
  ELSE <<x>> \o s

RECURSIVE SortByScore(_)
SortByScore(s) ==
  IF s = <<>> THEN <<>>
  ELSE InsertByScore(s[Len(s)], SortByScore(SubSeq(s, 1, Len(s) - 1)))

(* ------------------------------ state --------------------------------- *)

VARIABLES
  messages,      \* useChat: the conversation
  isLoading,     \* useChat: the isLoading state
  abortRef,      \* useChat: abortControllerRef.current, 0 for null, else the call
  calls,         \* the sendMessage calls: position and local variables of each
  nCalls,        \* number of sendMessage calls that passed the guard
  closure,       \* the values sendMessage and handleSendMessage captured at render
  now,           \* the last value Date.now() returned
  lastRequest,   \* body of the last request sent to /api/chat/query/stream
  home,          \* which Home component renders the Chat
  userId,        \* the userId the page passes to Chat
  storage,       \* localStorage["llamaindex_user_id"], NoId when absent
  mounted,       \* the mount effects of Home and FileList have run
  registry,      \* server: the ids of the registered files
  nextFile,      \* server: the id the next accepted upload gets
  store,         \* server: the chunks in the vector store
  chunkCount,    \* server: chunk_count of the registry records, by file id
  job,           \* server: the re-processing under way, else NoJob
  query,         \* server: the query being handled, its state and what it retrieved
  memory,        \* server: the ids of the queries whose exchange was remembered
  files,         \* Home: the files state (ids)
  listFiles,     \* FileList: the files state (ids)
  selectedFileIds, \* Home: the selection
  loading,       \* FileList: the loading state
  error,         \* FileList: the error state, NoError for null
  refreshTrigger, \* Home: the refreshTrigger state
  showUpload,    \* Home: the showUpload state
  loads,         \* the list requests of loadFiles in flight, oldest first
  deletes,       \* the file ids with a DELETE request in flight
  upload,        \* the upload request in flight ("orphan": of a component gone), else NoUpload
  uploading,     \* FileUpload: the uploading state
  upMessage,     \* FileUpload: the message state, "null" when none
  tab,           \* app.js: the active tab
  selector       \* app.js: the file ids with a checkbox in #chatFileSelector

chatVars == <<messages, isLoading, abortRef, calls, nCalls, closure, now, lastRequest>>

userVars == <<home, userId, storage>>

indexVars == <<store, chunkCount, job>>

queryVars == <<query, memory>>

serverVars == <<registry, nextFile, indexVars, queryVars>>

listVars == <<files, listFiles, selectedFileIds, loading, error, loads, deletes>>

uploadVars == <<refreshTrigger, showUpload, upload, uploading, upMessage>>

staticVars == <<tab, selector>>

pageVars == <<mounted, serverVars, listVars, uploadVars, staticVars>>

clientVars == <<chatVars, userVars, mounted, listVars, uploadVars, staticVars>>

vars == <<chatVars, userVars, pageVars>>

\* The id of the greeting message ("init-1").
InitId == -1

\* No entry in localStorage, and the userId prop of a Chat rendered without one.
NoId == "<none>"

Undefined == "<undefined>"

\* Message ids are Date.now().toString(); the conversion is one-to-one, the
\* model keeps the number.
UserMessage(input, t) == [role |-> "user", content |-> input, sources |-> <<>>, id |-> t]

AssistantMessage(id) == [role |-> "assistant", content |-> <<>>, sources |-> <<>>, id |-> id]

Greeting == [role |-> "assistant", content |-> <<Text("hello")>>, sources |-> <<>>, id |-> InitId]

IdleCall == [pc |-> "idle", id |-> 0, resp |-> <<>>, pos |-> 0, buffer |-> <<>>, cc |-> <<>>, cs |-> <<>>]

NoRequest == [keys |-> {}, message |-> <<>>, file_ids |-> {}, null_ids |-> FALSE, user_id |-> NoId]

\* The two pages of the repository: page.tsx renders <Chat> without a userId,
\* part_002 renders it with its userId state, "" until the mount effect ran.
Homes == {"page.tsx", "part_002"}

\* The static client, served without React.
StaticClient == "app.js"

Clients == Homes \cup {StaticClient}

Tabs == {"files", "chat"}

\* What sendMessage is called with: the text typed into the box.
Inputs == {<<>>, <<Blank>>, <<Text("q")>>}

InitChat ==
  /\ messages = <<Greeting>>
  /\ isLoading = FALSE
  /\ abortRef = 0
  /\ calls = [i \in 1..MaxCalls |-> IdleCall]
  /\ nCalls = 0
  /\ now = 0
  /\ lastRequest = NoRequest

InitUser ==
  /\ home \in Clients
  /\ userId = (IF home = "part_002" THEN "" ELSE Undefined)
  /\ storage = NoId
  /\ closure = [isLoading |-> FALSE, userId |-> userId]

NoError == "null"

\* maxSize of the dropzone: 15 MB.
MaxUploadSize == 15728640

\* The extensions the dropzone accepts.
AcceptedExts == {"txt", "pdf", "docx", "md"}

\* The files a user drops: empty, small, of exactly the largest size, one byte
\* larger; of an accepted type or not.
DroppedFiles == [size : {0, 1, MaxUploadSize, MaxUploadSize + 1}, ext : AcceptedExts \cup {"exe"}]

ValidFile == [size |-> 1, ext |-> "txt"]

\* The dropzone without maxSize: only the type is tested.
RejectionsTypeOnly(file) ==
  IF file.ext \in AcceptedExts THEN <<>> ELSE <<"file-invalid-type">>

\* The errors react-dropzone attaches to a dropped file: the type is tested
\* first, then the size; a file with errors is a rejection.
Rejections(file) ==
  (IF file.ext \in AcceptedExts THEN <<>> ELSE <<"file-invalid-type">>)
    \o (IF file.size > MaxUploadSize THEN <<"file-too-large">> ELSE <<>>)

\* The text onDrop shows for the first error of the first rejection.
RejectMessage(errors) ==
  IF errors[1] = "file-too-large" THEN "error: too large"
  ELSE IF errors[1] = "file-invalid-type" THEN "error: invalid type"
  ELSE "error: other"

ErrorMessages == {"error", "error: too large", "error: invalid type", "error: other"}

NoUpload == [st |-> "none", file |-> ValidFile]

NoJob == [st |-> "none", file |-> 0, attempted |-> 0]

NoQuery == [id |-> 0, st |-> "none", sel |-> {}, req |-> NoRequest, hits |-> {},
            up |-> "none", conn |-> FALSE, rem |-> FALSE]

\* The state after the first render of the page: FileList shows its spinner,
\* no effect has run yet, the server has no file.
InitPage ==
  /\ mounted = FALSE
  /\ registry = {}
  /\ nextFile = 1
  /\ store = {}
  /\ chunkCount = [f \in 1..MaxFiles |-> 0]
  /\ job = NoJob
  /\ query = NoQuery
  /\ memory = {}
  /\ files = {}
  /\ listFiles = {}
  /\ selectedFileIds = {}
  /\ loading = TRUE
  /\ error = NoError
  /\ refreshTrigger = 0
  /\ showUpload = FALSE
  /\ loads = <<>>
  /\ deletes = {}
  /\ upload = NoUpload
  /\ uploading = FALSE
  /\ upMessage = "null"
  /\ tab = "files"
  /\ selector = {}

Init == InitChat /\ InitUser /\ InitPage

(* ------------------------- useChat.sendMessage ------------------------ *)

\* A promise of call i was rejected by abort() and its catch has not run yet:
\* it runs in the microtask checkpoint, before any other task.
Aborting == \E i \in 1..MaxCalls : calls[i].pc = "aborting"

Running(i) == calls[i].pc \in {"fetch", "read"}

\* file_ids without the test for the empty selection: always the array.
FileIdsFieldArray(fileIds) == [null |-> FALSE, ids |-> fileIds]

\* file_ids always null, whatever is selected.
FileIdsFieldNull(fileIds) == [null |-> TRUE, ids |-> fileIds]

\* file_ids: fileIds.length > 0 ? fileIds : null
FileIdsField(fileIds) == [null |-> fileIds = {}, ids |-> fileIds]

\* JSON.stringify of the request body: a key whose value is undefined is left out.
Body(input, fileIds, uid) ==
  [keys |-> {"message", "file_ids", "chat_history"}
              \cup (IF uid = Undefined THEN {} ELSE {"user_id"}),
   message |-> input,
   file_ids |-> FileIdsField(fileIds).ids,
   null_ids |-> FileIdsField(fileIds).null,
   user_id |-> uid]

\* The guard and the synchronous part of sendMessage, up to the await of fetch.
\* t1 and t2 are what the two Date.now() calls return: the clock does not run
\* backwards, and it need not have advanced since it was last read.
SendMessage(input, fileIds, t1, t2) ==
  LET i == nCalls + 1 IN
  /\ ~Aborting
  /\ nCalls < MaxCalls
  /\ Trim(input) # <<>>
  /\ ~closure.isLoading
  /\ now <= t1 /\ t1 <= t2 /\ t2 <= MaxClock
  /\ isLoading' = TRUE
  /\ messages' = messages \o <<UserMessage(input, t1), AssistantMessage(t2 + 1)>>
  /\ abortRef' = i
  /\ calls' = [j \in 1..MaxCalls |->
                 IF j = i THEN [IdleCall EXCEPT !.pc = "fetch", !.id = t2 + 1]
                 ELSE IF j = abortRef /\ Running(j) THEN [calls[j] EXCEPT !.pc = "aborting"]
                 ELSE calls[j]]
  /\ nCalls' = i
  /\ now' = t2
  /\ lastRequest' = Body(input, fileIds, closure.userId)
  /\ UNCHANGED <<closure, userVars, pageVars>>

\* A call that has returned: its local variables are gone, the model keeps
\* how it ended and the id of its assistant message.
Returned(c, how) == [IdleCall EXCEPT !.pc = how, !.id = c.id]

\* The outer catch without its test for the AbortError.
CatchMessagesNoAbortTest(msgs, id, e) ==
  [j \in 1..Len(msgs) |->
     IF msgs[j].id = id
     THEN [msgs[j] EXCEPT !.content = msgs[j].content \o <<ErrorText(e)>>]
     ELSE msgs[j]]

\* catch (e) of the outer try: an AbortError returns, any other error is
\* appended to the assistant message of the call.
CatchMessages(msgs, id, e) ==
  IF e = "AbortError" THEN msgs
  ELSE [j \in 1..Len(msgs) |->
          IF msgs[j].id = id
          THEN [msgs[j] EXCEPT !.content = msgs[j].content \o <<ErrorText(e)>>]
          ELSE msgs[j]]

\* The outer catch without a finally: isLoading stays as it is.
CatchFinallyKeepsLoading(i, e) ==
  /\ messages' = CatchMessages(messages, calls[i].id, e)
  /\ isLoading' = isLoading
  /\ abortRef' = 0
  /\ calls' = [calls EXCEPT ![i] = Returned(calls[i], IF e = "AbortError" THEN "aborted" ELSE "failed")]
  /\ UNCHANGED <<nCalls, closure, now, lastRequest, userVars, pageVars>>

\* The outer catch followed by finally, for the error e thrown in call i.
CatchFinally(i, e) ==
  /\ messages' = CatchMessages(messages, calls[i].id, e)
  /\ isLoading' = FALSE
  /\ abortRef' = 0
  /\ calls' = [calls EXCEPT ![i] = Returned(calls[i], IF e = "AbortError" THEN "aborted" ELSE "failed")]
  /\ UNCHANGED <<nCalls, closure, now, lastRequest, userVars, pageVars>>

\* The fetch or the read of call i rejects with the AbortError.
AbortCatch(i) ==
  /\ calls[i].pc = "aborting"
  /\ CatchFinally(i, "AbortError")

\* fetch resolves with a response that is not ok, or that has no body.
FetchNotOk(i, e) ==
  /\ ~Aborting
  /\ calls[i].pc = "fetch"
  /\ e \in {"request failed", "no response stream"}
  /\ CatchFinally(i, e)

\* fetch rejects: the network failed.
FetchReject(i) ==
  /\ ~Aborting
  /\ calls[i].pc = "fetch"
  /\ CatchFinally(i, "network error")

\* fetch resolves with an ok response whose body is r.
FetchOk(i, r) ==
  /\ ~Aborting
  /\ calls[i].pc = "fetch"
  /\ calls' = [calls EXCEPT ![i].pc = "read", ![i].resp = r]
  /\ UNCHANGED <<messages, isLoading, abortRef, nCalls, closure, now, lastRequest, userVars, pageVars>>

\* A read that forgets the incomplete last line: buffer = "" after the loop.
ReadChunkNoBuffer(i, n) ==
  /\ ~Aborting
  /\ calls[i].pc = "read"
  /\ n \in 1..(Len(calls[i].resp) - calls[i].pos)
  /\ LET c == calls[i]
         buf == c.buffer \o SubSeq(c.resp, c.pos + 1, c.pos + n)
         parts == Split(buf)
         acc == ProcessLines([cc |-> c.cc, cs |-> c.cs, msgs |-> messages], c.id,
                             SubSeq(parts, 1, Len(parts) - 1))
     IN /\ messages' = acc.msgs
        /\ calls' = [calls EXCEPT ![i].pos = c.pos + n, ![i].buffer = <<>>,
                                  ![i].cc = acc.cc, ![i].cs = acc.cs]
  /\ UNCHANGED <<isLoading, abortRef, nCalls, closure, now, lastRequest, userVars, pageVars>>

\* reader.read() yields the next n characters; the complete lines are processed.
ReadChunk(i, n) ==
  /\ ~Aborting
  /\ calls[i].pc = "read"
  /\ n \in 1..(Len(calls[i].resp) - calls[i].pos)
  /\ LET c == calls[i]
         buf == c.buffer \o SubSeq(c.resp, c.pos + 1, c.pos + n)
         parts == Split(buf)
         acc == ProcessLines([cc |-> c.cc, cs |-> c.cs, msgs |-> messages], c.id,
                             SubSeq(parts, 1, Len(parts) - 1))
     IN /\ messages' = acc.msgs
        /\ calls' = [calls EXCEPT ![i].pos = c.pos + n, ![i].buffer = parts[Len(parts)],
                                  ![i].cc = acc.cc, ![i].cs = acc.cs]
  /\ UNCHANGED <<isLoading, abortRef, nCalls, closure, now, lastRequest, userVars, pageVars>>

\* A read of n characters of call i that ends with a newline: the server
\* flushes whole events.
LineCut(i, n) ==
  /\ calls[i].pos + n <= Len(calls[i].resp)
  /\ calls[i].resp[calls[i].pos + n] = NL

\* reader.read() reports done: the loop ends and finally runs.
ReadDone(i) ==
  /\ ~Aborting
  /\ calls[i].pc = "read"
  /\ calls[i].pos = Len(calls[i].resp)
  /\ isLoading' = FALSE
  /\ abortRef' = 0
  /\ calls' = [calls EXCEPT ![i] = Returned(calls[i], "completed")]
  /\ UNCHANGED <<messages, nCalls, closure, now, lastRequest, userVars, pageVars>>

\* reader.read() rejects: the connection broke while streaming.
ReadReject(i) ==
  /\ ~Aborting
  /\ calls[i].pc = "read"
  /\ CatchFinally(i, "network error")

\* React renders: sendMessage and handleSendMessage capture isLoading and
\* userId, and ChatMessage sorts the sources of each message in place.
Render ==
  /\ ~Aborting
  /\ closure' = [isLoading |-> isLoading, userId |-> userId]
  /\ messages' = [j \in 1..Len(messages) |->
                    [messages[j] EXCEPT !.sources = SortByScore(messages[j].sources)]]
  /\ UNCHANGED <<isLoading, abortRef, calls, nCalls, now, lastRequest, userVars, pageVars>>

\* Chat.handleSendMessage: the guard on the rendered state, then sendMessage
\* with the text of the box and the selected file ids.
HandleSendMessage(input, fileIds, t1, t2) ==
  /\ Trim(input) # <<>>
  /\ ~closure.isLoading
  /\ SendMessage(input, fileIds, t1, t2)

NextChat ==
  \/ \E input \in Inputs, t \in 0..MaxClock : HandleSendMessage(input, {}, t, t)
  \/ \E i \in 1..MaxCalls : AbortCatch(i)
  \/ \E i \in 1..MaxCalls : FetchNotOk(i, "request failed")
  \/ \E i \in 1..MaxCalls : FetchReject(i)
  \/ \E i \in 1..MaxCalls, r \in ChatResponses : FetchOk(i, r)
  \/ \E i \in 1..MaxCalls, n \in 1..Len(RespStream) : LineCut(i, n) /\ ReadChunk(i, n)
  \/ \E i \in 1..MaxCalls : ReadDone(i)
  \/ \E i \in 1..MaxCalls : ReadReject(i)
  \/ Render

\* The hook on the page that passes its userId state to the Chat. No file is
\* selected, the two Date.now() calls of one sendMessage fall in the same
\* millisecond, the server answers 200 with a body and flushes whole events.
\* The page of part_002 after its first render.
InitPart002 == Init /\ home = "part_002"

SpecChat == InitPart002 /\ [][NextChat]_vars

(* ----------------------------- the server ---------------------------- *)

\* GET /api/files/list: the registered files.
ListResponse == registry

\* DELETE /api/files/{id}: the file leaves the registry; deleting an unknown
\* id succeeds too.
RegistryAfterDelete(f) == registry \ {f}

\* POST /api/files/upload refuses an empty file and one over the ceiling.
UploadValid(file) == file.size > 0 /\ file.size <= MaxUploadSize

\* POST /api/files/upload of a valid file: it is registered under a fresh id.
RegistryAfterUpload == registry \cup {nextFile}

\* The files a query searches: all registered files when file_ids is null or
\* empty, else the listed ids that are registered (unknown ids are ignored).
Scope(body, reg) ==
  IF body.null_ids \/ body.file_ids = {} THEN reg ELSE body.file_ids \cap reg

\* The chunks of file f in a store.
ChunksOf(st, f) == {c \in st : c.file = f}

\* The chunks one indexing of file f writes: n of them, of one generation.
NewChunks(f, g, n) == {[file |-> f, gen |-> g, k |-> j] : j \in 1..n}

\* The generation after the one file f has in the store (two are told apart).
NextGen(st, f) == IF \E c \in st : c.file = f /\ c.gen = 0 THEN 1 ELSE 0

\* index that patches in place: the chunks of the file's old generation stay.
StoreAfterIndexPatched(st, f, n) == st \cup NewChunks(f, NextGen(st, f), n)

\* index(file_id, chunks): the n chunks replace those the file had, in one
\* step of the store.
StoreAfterIndex(st, f, n) == (st \ ChunksOf(st, f)) \cup NewChunks(f, NextGen(st, f), n)

\* delete(file_id): all chunks of the file leave the store.
StoreAfterDelete(st, f) == st \ ChunksOf(st, f)

\* chunk_count written as the number of chunks handed to index.
CountWrittenAttempted(attempted, stored) == attempted

\* chunk_count as the registry writes it: the count index reports as stored.
CountWritten(attempted, stored) == stored

\* process(bytes, filename): the number of chunks a file is cut into, at
\* least one for a valid file.
Process(file) == IF file.size <= 1 THEN 1 ELSE MaxChunks

\* search without the filter on file_id.
SearchUnscoped(scope, st) == st

\* search(query, top_k, scope): the chunks of the files in scope, top_k being
\* large enough for all of them.
Search(scope, st) == {c \in st : c.file \in scope}

\* An accepted upload: the file is processed, its chunks are indexed, of which
\* the store keeps `stored`, and the record is created with that count.
Registers(file, stored) ==
  /\ registry' = RegistryAfterUpload
  /\ nextFile' = nextFile + 1
  /\ store' = StoreAfterIndex(store, nextFile, stored)
  /\ chunkCount' = [chunkCount EXCEPT ![nextFile] = CountWritten(Process(file), stored)]
  /\ UNCHANGED <<job, queryVars>>

\* A delete: the record goes and with it every chunk of the file.
Unregisters(f) ==
  /\ registry' = RegistryAfterDelete(f)
  /\ store' = StoreAfterDelete(store, f)
  /\ chunkCount' = [g \in 1..MaxFiles |-> IF g = f THEN 0 ELSE chunkCount[g]]
  /\ UNCHANGED <<job, queryVars>>

\* The files uploaded to the server by any client: of every size, of one type.
ServerFiles == {file \in DroppedFiles : file.ext = "txt"}

\* POST /api/files/upload by any client: a valid file is registered.
ServerUpload(file, stored) ==
  /\ UploadValid(file)
  /\ nextFile <= MaxFiles
  /\ stored \in 1..Process(file)
  /\ Registers(file, stored)
  /\ UNCHANGED clientVars

\* DELETE /api/files/{id} by any client, of a known id or not.
ServerDelete(f) ==
  /\ Unregisters(f)
  /\ UNCHANGED <<nextFile, clientVars>>

\* Re-processing of a registered file starts: the document is parsed and cut
\* into `attempted` chunks, one file at a time.
StartReindex(f, attempted) ==
  /\ job = NoJob
  /\ f \in registry
  /\ attempted \in 1..MaxChunks
  /\ job' = [st |-> "embedding", file |-> f, attempted |-> attempted]
  /\ UNCHANGED <<registry, nextFile, store, chunkCount, queryVars, clientVars>>

\* index reports success with `stored` chunks: they replace the old ones and
\* the count is written with them. A file deleted meanwhile stays deleted.
FinishReindex(stored) ==
  /\ job.st = "embedding"
  /\ stored \in 1..job.attempted
  /\ job' = NoJob
  /\ IF job.file \in registry
     THEN /\ store' = StoreAfterIndex(store, job.file, stored)
          /\ chunkCount' = [chunkCount EXCEPT ![job.file] = CountWritten(job.attempted, stored)]
     ELSE UNCHANGED <<store, chunkCount>>
  /\ UNCHANGED <<registry, nextFile, queryVars, clientVars>>

\* index fails: nothing is replaced.
ReindexFail ==
  /\ job.st = "embedding"
  /\ job' = NoJob
  /\ UNCHANGED <<registry, nextFile, store, chunkCount, queryVars, clientVars>>

QueryEnded == query.st \in {"completed", "failed", "aborted"}

\* POST /api/chat/query/stream of a client that has the files ids selected:
\* received, validated, and on to retrieving. One query is followed at a time.
Receive(ids) ==
  /\ query.st = "none" \/ QueryEnded
  /\ query.st = "completed" => query.rem
  /\ query.id < MaxQueries
  /\ query' = [NoQuery EXCEPT !.id = query.id + 1, !.st = "retrieving", !.sel = ids,
                              !.req = Body(<<Text("q")>>, ids, Undefined), !.conn = TRUE]
  /\ UNCHANGED <<registry, nextFile, indexVars, memory, clientVars>>

\* retrieving: the vector search over the scope, filtered against the registry.
Retrieve ==
  /\ query.st = "retrieving"
  /\ query' = [query EXCEPT !.st = "composing",
                            !.hits = Search(Scope(query.req, registry), store)]
  /\ UNCHANGED <<registry, nextFile, indexVars, memory, clientVars>>

\* The vector search fails: the query fails.
RetrieveFail ==
  /\ query.st = "retrieving"
  /\ query' = [query EXCEPT !.st = "failed"]
  /\ UNCHANGED <<registry, nextFile, indexVars, memory, clientVars>>

\* composing: the prompt is built and the completion call starts.
Compose ==
  /\ query.st = "composing"
  /\ query' = [query EXCEPT !.st = "streaming", !.up = "running"]
  /\ UNCHANGED <<registry, nextFile, indexVars, memory, clientVars>>

\* A stream completes whatever became of its client.
CanCompleteDisconnected(q) == TRUE

\* A stream can complete while its client is connected.
CanComplete(q) == q.conn

\* streaming: the completion ends and the last event is sent.
Complete ==
  /\ query.st = "streaming"
  /\ CanComplete(query)
  /\ query' = [query EXCEPT !.st = "completed", !.up = "done"]
  /\ UNCHANGED <<registry, nextFile, indexVars, memory, clientVars>>

\* The completion engine fails: the stream ends with an error event.
GenerationFail ==
  /\ query.st = "streaming"
  /\ query' = [query EXCEPT !.st = "failed", !.up = "failed"]
  /\ UNCHANGED <<registry, nextFile, indexVars, memory, clientVars>>

\* The client aborts its request: the connection drops.
Disconnect ==
  /\ query.conn
  /\ query.st \in {"retrieving", "composing", "streaming"}
  /\ query' = [query EXCEPT !.conn = FALSE]
  /\ UNCHANGED <<registry, nextFile, indexVars, memory, clientVars>>

\* The server notices the dropped connection: it cancels the completion call
\* and cleans up.
Cancel ==
  /\ ~query.conn
  /\ query.st \in {"retrieving", "composing", "streaming"}
  /\ query' = [query EXCEPT !.st = "aborted",
                            !.up = IF query.up = "running" THEN "cancelled" ELSE query.up]
  /\ UNCHANGED <<registry, nextFile, indexVars, memory, clientVars>>

\* completed: remember() is called once with the exchange, and may fail.
Remember(ok) ==
  /\ query.st = "completed"
  /\ ~query.rem
  /\ query' = [query EXCEPT !.rem = TRUE]
  /\ memory' = (IF ok THEN memory \cup {query.id} ELSE memory)
  /\ UNCHANGED <<registry, nextFile, indexVars, clientVars>>

\* The search of the query is still to come.
BeforeSearch == query.st \in {"none", "retrieving"}

\* The server's files up to the search of one query: uploads, deletes and
\* re-processing by any client, and the search that runs beside them.
NextIndex ==
  \/ \E file \in ServerFiles, stored \in 1..MaxChunks : BeforeSearch /\ ServerUpload(file, stored)
  \/ \E f \in 1..MaxFiles : BeforeSearch /\ ServerDelete(f)
  \/ \E f \in 1..MaxFiles, n \in 1..MaxChunks : BeforeSearch /\ StartReindex(f, n)
  \/ \E n \in 1..MaxChunks : BeforeSearch /\ FinishReindex(n)
  \/ BeforeSearch /\ ReindexFail
  \/ \E ids \in SUBSET (1..MaxFiles) : Receive(ids)
  \/ Retrieve

\* The server before any request, as spec.md describes it.
InitServer == Init /\ home = "page.tsx"

SpecIndex == InitServer /\ [][NextIndex]_vars

\* The queries of the server from received to their end, over the files
\* uploaded meanwhile.
NextQuery ==
  \/ \E file \in ServerFiles, stored \in 1..MaxChunks : ServerUpload(file, stored)
  \/ \E ids \in SUBSET (1..MaxFiles) : Receive(ids)
  \/ Retrieve
  \/ RetrieveFail
  \/ Compose
  \/ Complete
  \/ GenerationFail
  \/ Disconnect
  \/ Cancel
  \/ \E ok \in BOOLEAN : Remember(ok)

SpecQuery == InitServer /\ [][NextQuery]_vars

(* ------------------------ Home, FileList, FileUpload ------------------ *)

\* What Math.random() makes of a new user id.
RandomIds == {"user_a", "user_b"}

\* A list request in flight. The field overtaken is history, not state of the
\* code: the response of a request started later has already been applied.
SentLoad == [st |-> "sent", data |-> {}, overtaken |-> FALSE]

Remove(s, k) == SubSeq(s, 1, k - 1) \o SubSeq(s, k + 1, Len(s))

\* loadFiles up to the await of fetch.
LoadFiles ==
  /\ Len(loads) < MaxLoads
  /\ loading' = TRUE
  /\ loads' = Append(loads, SentLoad)

\* The effects after the first render: FileList loads the files, and the Home
\* of part_002 reads the user id from localStorage, creating it when absent.
MountEffects ==
  /\ home \in Homes
  /\ ~mounted
  /\ mounted' = TRUE
  /\ LoadFiles
  /\ IF home = "part_002"
     THEN \E r \in RandomIds :
            LET uid == IF storage = NoId THEN r ELSE storage
            IN storage' = uid /\ userId' = uid
     ELSE UNCHANGED <<userId, storage>>
  /\ UNCHANGED <<chatVars, home, serverVars, files, listFiles, selectedFileIds, error,
                 deletes, uploadVars, staticVars>>

\* The server answers the k-th list request in flight.
ListOk(k) ==
  /\ k \in 1..Len(loads)
  /\ loads[k].st = "sent"
  /\ loads' = [loads EXCEPT ![k].st = "ok", ![k].data = ListResponse]
  /\ UNCHANGED <<chatVars, userVars, mounted, serverVars, files, listFiles, selectedFileIds,
                 loading, error, deletes, uploadVars, staticVars>>

\* The selection loadFiles leaves, without the reset to the loaded files.
SelectionAfterLoadKept(data) == selectedFileIds

\* onSelectionChange(new Set(data.map(f => f.file_id))): a load selects all.
SelectionAfterLoad(data) == data

\* loadFiles after the await, with the ok response of the k-th request.
LoadOk(k) ==
  /\ home \in Homes
  /\ k \in 1..Len(loads)
  /\ loads[k].st = "ok"
  /\ listFiles' = loads[k].data
  /\ files' = loads[k].data
  /\ selectedFileIds' = SelectionAfterLoad(loads[k].data)
  /\ error' = NoError
  /\ loading' = FALSE
  /\ loads' = Remove([j \in 1..Len(loads) |->
                        IF j < k THEN [loads[j] EXCEPT !.overtaken = TRUE] ELSE loads[j]], k)
  /\ UNCHANGED <<chatVars, userVars, mounted, serverVars, deletes, uploadVars, staticVars>>

\* A catch of loadFiles that empties the list and the selection.
LoadFailClears(k) ==
  /\ home \in Homes
  /\ k \in 1..Len(loads)
  /\ loads[k].st = "sent"
  /\ error' = "load failed"
  /\ loading' = FALSE
  /\ loads' = Remove(loads, k)
  /\ listFiles' = {}
  /\ files' = {}
  /\ selectedFileIds' = {}
  /\ UNCHANGED <<chatVars, userVars, mounted, serverVars, deletes, uploadVars, staticVars>>

\* loadFiles after the await, when the k-th request failed or was not ok.
LoadFail(k) ==
  /\ home \in Homes
  /\ k \in 1..Len(loads)
  /\ loads[k].st = "sent"
  /\ error' = "load failed"
  /\ loading' = FALSE
  /\ loads' = Remove(loads, k)
  /\ UNCHANGED <<chatVars, userVars, mounted, serverVars, files, listFiles, selectedFileIds,
                 deletes, uploadVars, staticVars>>

\* FileList renders the rows of its files: not while loading, not on an error.
ListShown == home \in Homes /\ mounted /\ ~loading /\ error = NoError

\* A click on the row of file f.
ToggleFileSelection(f) ==
  /\ ListShown
  /\ f \in listFiles
  /\ selectedFileIds' = (IF f \in selectedFileIds THEN selectedFileIds \ {f}
                         ELSE selectedFileIds \cup {f})
  /\ UNCHANGED <<chatVars, userVars, mounted, serverVars, files, listFiles, loading, error,
                 loads, deletes, uploadVars, staticVars>>

\* isAllSelected without the comparison of the sizes: true when anything is
\* selected.
IsAllSelectedAny == files # {} /\ Cardinality(selectedFileIds) > 0

IsAllSelected == files # {} /\ Cardinality(selectedFileIds) = Cardinality(files)

\* The button over the list, rendered when there are files.
HandleSelectAll ==
  /\ home \in Homes
  /\ files # {}
  /\ ~IsAllSelected
  /\ selectedFileIds' = files
  /\ UNCHANGED <<chatVars, userVars, mounted, serverVars, files, listFiles, loading, error,
                 loads, deletes, uploadVars, staticVars>>

HandleDeselectAll ==
  /\ home \in Homes
  /\ IsAllSelected
  /\ selectedFileIds' = {}
  /\ UNCHANGED <<chatVars, userVars, mounted, serverVars, files, listFiles, loading, error,
                 loads, deletes, uploadVars, staticVars>>

\* deleteFile(f) when confirm() answers no: it returns at once.
DeleteDeclined(f) ==
  /\ ListShown
  /\ f \in listFiles
  /\ UNCHANGED vars

\* deleteFile(f), confirmed, up to the await of fetch.
DeleteFile(f) ==
  /\ ListShown
  /\ f \in listFiles
  /\ f \notin deletes
  /\ deletes' = deletes \cup {f}
  /\ UNCHANGED <<chatVars, userVars, mounted, serverVars, files, listFiles, selectedFileIds,
                 loading, error, loads, uploadVars, staticVars>>

\* The server deletes f and deleteFile goes on after the await: it reloads.
DeleteOk(f) ==
  /\ home \in Homes
  /\ f \in deletes
  /\ deletes' = deletes \ {f}
  /\ Unregisters(f)
  /\ LoadFiles
  /\ UNCHANGED <<chatVars, userVars, mounted, nextFile, files, listFiles, selectedFileIds,
                 error, uploadVars, staticVars>>

\* The DELETE request fails: deleteFile alerts.
DeleteFail(f) ==
  /\ home \in Homes
  /\ f \in deletes
  /\ deletes' = deletes \ {f}
  /\ UNCHANGED <<chatVars, userVars, mounted, serverVars, files, listFiles, selectedFileIds,
                 loading, error, loads, uploadVars, staticVars>>

\* The button that shows and hides FileUpload; hidden, its state is gone, and
\* an upload it has in flight goes on without a component to update.
ToggleUpload ==
  /\ home \in Homes
  /\ mounted
  /\ showUpload' = ~showUpload
  /\ uploading' = (IF showUpload THEN FALSE ELSE uploading)
  /\ upMessage' = (IF showUpload THEN "null" ELSE upMessage)
  /\ upload' = (IF showUpload /\ upload.st = "sent" THEN [upload EXCEPT !.st = "orphan"]
                ELSE upload)
  /\ UNCHANGED <<chatVars, userVars, mounted, serverVars, listVars, refreshTrigger, staticVars>>

\* onDrop with one dropped file: a rejection is shown and nothing is sent, an
\* accepted file is sent, and onDrop waits for the answer.
OnDrop(file) ==
  /\ home \in Homes
  /\ showUpload
  /\ IF Rejections(file) # <<>>
     THEN /\ upMessage' = RejectMessage(Rejections(file))
          /\ UNCHANGED <<upload, uploading>>
     ELSE /\ upload = NoUpload
          /\ nextFile <= MaxFiles
          /\ upload' = [st |-> "sent", file |-> file]
          /\ uploading' = TRUE
          /\ upMessage' = "null"
  /\ UNCHANGED <<chatVars, userVars, mounted, serverVars, listVars, refreshTrigger, showUpload,
                 staticVars>>

\* The server registers the file; onDrop shows the success and calls
\* onUploadSuccess, which hides FileUpload and makes FileList load again.
UploadOk ==
  /\ home \in Homes
  /\ upload.st \in {"sent", "orphan"}
  /\ UploadValid(upload.file)
  /\ upload' = NoUpload
  /\ Registers(upload.file, Process(upload.file))
  /\ refreshTrigger' = refreshTrigger + 1
  /\ showUpload' = FALSE
  /\ uploading' = FALSE
  /\ upMessage' = "null"
  /\ LoadFiles
  /\ UNCHANGED <<chatVars, userVars, mounted, files, listFiles, selectedFileIds, error,
                 deletes, staticVars>>

\* The upload fails or is refused: onDrop shows the error in the component
\* that started it, when that is still there.
UploadFail ==
  /\ home \in Homes
  /\ upload.st \in {"sent", "orphan"}
  /\ upload' = NoUpload
  /\ uploading' = (IF upload.st = "sent" THEN FALSE ELSE uploading)
  /\ upMessage' = (IF upload.st = "sent" THEN "error" ELSE upMessage)
  /\ UNCHANGED <<chatVars, userVars, mounted, serverVars, listVars, refreshTrigger, showUpload,
                 staticVars>>

\* No message has been sent yet.
BeforeFirstSend == nCalls = 0

\* The first message of the page, sent with the selection as it is.
PageSend ==
  /\ BeforeFirstSend
  /\ \E input \in Inputs : HandleSendMessage(input, selectedFileIds, now, now)

\* The page up to its first message: the files and the selection do not depend
\* on the conversation. The file dropped is one the dropzone and the server
\* accept; SpecUpload drops the others.
NextPage ==
  \/ BeforeFirstSend /\ MountEffects
  \/ \E k \in 1..MaxLoads : BeforeFirstSend /\ ListOk(k)
  \/ \E k \in 1..MaxLoads : BeforeFirstSend /\ LoadOk(k)
  \/ \E k \in 1..MaxLoads : BeforeFirstSend /\ LoadFail(k)
  \/ \E f \in 1..MaxFiles : BeforeFirstSend /\ ToggleFileSelection(f)
  \/ BeforeFirstSend /\ HandleSelectAll
  \/ BeforeFirstSend /\ HandleDeselectAll
  \/ \E f \in 1..MaxFiles : BeforeFirstSend /\ DeleteDeclined(f)
  \/ \E f \in 1..MaxFiles : BeforeFirstSend /\ DeleteFile(f)
  \/ \E f \in 1..MaxFiles : BeforeFirstSend /\ DeleteOk(f)
  \/ \E f \in 1..MaxFiles : BeforeFirstSend /\ DeleteFail(f)
  \/ BeforeFirstSend /\ ToggleUpload
  \/ BeforeFirstSend /\ OnDrop(ValidFile)
  \/ BeforeFirstSend /\ UploadOk
  \/ BeforeFirstSend /\ UploadFail
  \/ BeforeFirstSend /\ Render
  \/ PageSend

\* Either page of the React client with the server, which starts without
\* files and serves this client alone.
InitReact == Init /\ home \in Homes

SpecPage == InitReact /\ [][NextPage]_vars

\* The page of page.tsx alone.
InitPageTsx == Init /\ home = "page.tsx"

SpecFiles == InitPageTsx /\ [][NextPage]_vars

\* The upload of page.tsx with every kind of dropped file, beside the list it
\* refreshes.
NextUpload ==
  \/ MountEffects
  \/ \E k \in 1..MaxLoads : ListOk(k)
  \/ \E k \in 1..MaxLoads : LoadOk(k)
  \/ \E k \in 1..MaxLoads : LoadFail(k)
  \/ \E f \in 1..MaxFiles : ToggleFileSelection(f)
  \/ ToggleUpload
  \/ \E file \in DroppedFiles : OnDrop(file)
  \/ UploadOk
  \/ UploadFail

SpecUpload == InitPageTsx /\ [][NextUpload]_vars

\* The first message of the page of part_002 and its rendering, the sources
\* event carrying its array in any order.
NextRender ==
  \/ \E input \in Inputs : BeforeFirstSend /\ HandleSendMessage(input, {}, now, now)
  \/ \E r \in RenderResponses : FetchOk(1, r)
  \/ \E n \in 1..Len(calls[1].resp) : LineCut(1, n) /\ ReadChunk(1, n)
  \/ ReadDone(1)
  \/ Render

SpecRender == InitPart002 /\ [][NextRender]_vars

(* --------------------------- the static client ------------------------ *)

\* getUserId() without the test of the stored id: a new id at every call.
GetUserIdFresh(r) == r

\* getUserId(): the stored user id, created when absent.
GetUserId(r) == IF storage = NoId THEN r ELSE storage

\* loadFiles of app.js up to the await of fetch.
StaticLoadFiles ==
  /\ Len(loads) < MaxLoads
  /\ loads' = Append(loads, SentLoad)

\* The end of the script: loadFiles() and displayUserId(), the page having the
\* element that shows the user id.
StaticInit ==
  /\ home = StaticClient
  /\ ~mounted
  /\ mounted' = TRUE
  /\ StaticLoadFiles
  /\ \E r \in RandomIds : storage' = GetUserId(r)
  /\ UNCHANGED <<chatVars, home, userId, serverVars, files, listFiles, selectedFileIds,
                 loading, error, deletes, uploadVars, staticVars>>

\* renderChatFileSelector(): a checkbox per file of allFiles.
RenderChatFileSelector(all) == all

\* loadFiles after the awaits, with the response of the k-th request: it keeps
\* the files, renders the list and, on the chat tab and with a file to show,
\* the selector.
StaticLoadOk(k) ==
  /\ home = StaticClient
  /\ k \in 1..Len(loads)
  /\ loads[k].st = "ok"
  /\ files' = loads[k].data
  /\ listFiles' = loads[k].data
  /\ selector' = (IF loads[k].data # {} /\ tab = "chat"
                  THEN RenderChatFileSelector(loads[k].data) ELSE selector)
  /\ loads' = Remove(loads, k)
  /\ UNCHANGED <<chatVars, userVars, mounted, serverVars, selectedFileIds, loading, error,
                 deletes, uploadVars, tab>>

\* The k-th list request fails: the list shows the error.
StaticLoadFail(k) ==
  /\ home = StaticClient
  /\ k \in 1..Len(loads)
  /\ loads[k].st = "sent"
  /\ listFiles' = {}
  /\ loads' = Remove(loads, k)
  /\ UNCHANGED <<chatVars, userVars, mounted, serverVars, files, selectedFileIds, loading,
                 error, deletes, uploadVars, staticVars>>

SwitchTab(t) ==
  /\ home = StaticClient
  /\ mounted
  /\ t # tab
  /\ tab' = t
  /\ selector' = (IF t = "chat" THEN RenderChatFileSelector(files) ELSE selector)
  /\ UNCHANGED <<chatVars, userVars, mounted, serverVars, listVars, uploadVars>>

\* toggleFileSelection(f), from the checkbox of f.
StaticToggleFileSelection(f) ==
  /\ tab = "chat"
  /\ f \in selector
  /\ selectedFileIds' = (IF f \in selectedFileIds THEN selectedFileIds \ {f}
                         ELSE selectedFileIds \cup {f})
  /\ selector' = RenderChatFileSelector(files)
  /\ UNCHANGED <<chatVars, userVars, mounted, serverVars, files, listFiles, loading, error,
                 loads, deletes, uploadVars, tab>>

\* deleteFile(f) of app.js, confirmed, up to the await of fetch.
StaticDeleteFile(f) ==
  /\ home = StaticClient
  /\ tab = "files"
  /\ f \in listFiles
  /\ f \notin deletes
  /\ deletes' = deletes \cup {f}
  /\ UNCHANGED <<chatVars, userVars, mounted, serverVars, files, listFiles, selectedFileIds,
                 loading, error, loads, uploadVars, staticVars>>

\* The server deletes f and deleteFile goes on after the await: loadFiles().
StaticDeleteOk(f) ==
  /\ home = StaticClient
  /\ f \in deletes
  /\ deletes' = deletes \ {f}
  /\ Unregisters(f)
  /\ StaticLoadFiles
  /\ UNCHANGED <<chatVars, userVars, mounted, nextFile, files, listFiles, selectedFileIds,
                 loading, error, uploadVars, staticVars>>

\* The DELETE request fails: deleteFile alerts.
StaticDeleteFail(f) ==
  /\ home = StaticClient
  /\ f \in deletes
  /\ deletes' = deletes \ {f}
  /\ UNCHANGED <<chatVars, userVars, mounted, serverVars, files, listFiles, selectedFileIds,
                 loading, error, loads, uploadVars, staticVars>>

\* handleFiles up to the await of fetch: the page tests nothing, the file is
\* one the server accepts unless the request fails.
HandleFiles ==
  /\ home = StaticClient
  /\ mounted
  /\ tab = "files"
  /\ upload = NoUpload
  /\ nextFile <= MaxFiles
  /\ upload' = [st |-> "sent", file |-> ValidFile]
  /\ upMessage' = "loading"
  /\ UNCHANGED <<chatVars, userVars, mounted, serverVars, listVars, refreshTrigger, showUpload,
                 uploading, staticVars>>

\* The server registers the file: handleFiles shows the success and loads.
HandleFilesOk ==
  /\ home = StaticClient
  /\ upload.st = "sent"
  /\ UploadValid(upload.file)
  /\ upload' = NoUpload
  /\ Registers(upload.file, Process(upload.file))
  /\ upMessage' = "success"
  /\ StaticLoadFiles
  /\ UNCHANGED <<chatVars, userVars, mounted, files, listFiles, selectedFileIds, loading,
                 error, deletes, refreshTrigger, showUpload, uploading, staticVars>>

HandleFilesFail ==
  /\ home = StaticClient
  /\ upload.st = "sent"
  /\ upload' = NoUpload
  /\ upMessage' = "error"
  /\ UNCHANGED <<chatVars, userVars, mounted, serverVars, listVars, refreshTrigger, showUpload,
                 uploading, staticVars>>

\* sendMessage of app.js up to the await of fetch.
StaticSendMessage(input) ==
  /\ home = StaticClient
  /\ mounted
  /\ tab = "chat"
  /\ Trim(input) # <<>>
  /\ \E r \in RandomIds :
       /\ lastRequest' = Body(Trim(input), selectedFileIds, GetUserId(r))
       /\ storage' = GetUserId(r)
  /\ UNCHANGED <<messages, isLoading, abortRef, calls, nCalls, closure, now, home, userId,
                 pageVars>>

NextStatic ==
  \/ StaticInit
  \/ \E k \in 1..MaxLoads : ListOk(k)
  \/ \E k \in 1..MaxLoads : StaticLoadOk(k)
  \/ \E k \in 1..MaxLoads : StaticLoadFail(k)
  \/ \E t \in Tabs : SwitchTab(t)
  \/ \E f \in 1..MaxFiles : StaticToggleFileSelection(f)
  \/ \E f \in 1..MaxFiles : StaticDeleteFile(f)
  \/ \E f \in 1..MaxFiles : StaticDeleteOk(f)
  \/ \E f \in 1..MaxFiles : StaticDeleteFail(f)
  \/ HandleFiles
  \/ HandleFilesOk
  \/ HandleFilesFail
  \/ \E input \in Inputs : StaticSendMessage(input)

\* The static client and the server, which starts without files.
InitStatic == Init /\ home = StaticClient

SpecStatic == InitStatic /\ [][NextStatic]_vars

(* ------------------------------ the user id --------------------------- *)

\* A visit of a client: localStorage is empty or holds the id that an earlier
\* visit left there.
InitVisit ==
  /\ InitChat
  /\ InitPage
  /\ home \in Clients
  /\ userId = (IF home = "part_002" THEN "" ELSE Undefined)
  /\ storage \in {NoId, "user_old"}
  /\ closure = [isLoading |-> FALSE, userId |-> userId]

NextUser ==
  \/ StaticInit
  \/ MountEffects
  \/ \E k \in 1..MaxLoads : ListOk(k)
  \/ \E k \in 1..MaxLoads : StaticLoadOk(k)
  \/ \E k \in 1..MaxLoads : LoadOk(k)
  \/ \E t \in Tabs : SwitchTab(t)
  \/ \E f \in 1..MaxFiles : StaticToggleFileSelection(f)
  \/ HandleFiles
  \/ HandleFilesOk
  \/ \E input \in Inputs : StaticSendMessage(input)
  \/ \E f \in 1..MaxFiles : ToggleFileSelection(f)
  \/ HandleSelectAll
  \/ HandleDeselectAll
  \/ ToggleUpload
  \/ OnDrop(ValidFile)
  \/ UploadOk

SpecUser == InitVisit /\ [][NextUser]_vars

(* ----------------------------- the stream ------------------------------ *)

\* The hook with response bodies of every kind, cut into reads anywhere.
NextStream ==
  \/ \E input \in Inputs, t \in 0..MaxClock :
       nCalls < MaxStreams /\ HandleSendMessage(input, {}, t, t)
  \/ \E i \in 1..MaxCalls : AbortCatch(i)
  \/ \E i \in 1..MaxCalls, r \in StreamResponses : FetchOk(i, r)
  \/ \E i \in 1..MaxCalls, n \in 1..Len(RespNoise) : ReadChunk(i, n)
  \/ \E i \in 1..MaxCalls : ReadDone(i)
  \/ Render

SpecStream == InitPart002 /\ [][NextStream]_vars

(* ------------------------ claims on the chat hook --------------------- *)

\* The place in the conversation of the assistant message that call i created:
\* the greeting, then a user message and a placeholder per call.
AsstIdx(i) == 2 * i + 1

Started(i) == calls[i].pc # "idle"

Ended(i) == calls[i].pc \in {"completed", "failed", "aborted"}

IsPrefix(s, t) == Len(s) <= Len(t) /\ SubSeq(t, 1, Len(s)) = s

\* The events of the complete "data: " lines of a text, in order.
RECURSIVE EventsOf(_)
EventsOf(lines) ==
  IF lines = <<>> THEN <<>>
  ELSE LET l == Head(lines)
           p == JSONParse(IF l = <<>> THEN <<>> ELSE Tail(l))
       IN (IF ~IsBlank(l) /\ StartsWithData(l) /\ p.ok THEN <<p.ev>> ELSE <<>>)
            \o EventsOf(Tail(lines))

\* The events call i has processed so far: those of the complete lines read.
Processed(i) ==
  LET parts == Split(SubSeq(calls[i].resp, 1, calls[i].pos))
  IN EventsOf(SubSeq(parts, 1, Len(parts) - 1))

\* The events the server sent to call i.
Sent(i) ==
  LET parts == Split(calls[i].resp)
  IN EventsOf(SubSeq(parts, 1, Len(parts) - 1))

ErrorSeen(i) == \E k \in 1..Len(Processed(i)) : Processed(i)[k].type = "error"

\* The message of the first error event call i processed.
SeenError(i) ==
  LET k == CHOOSE h \in 1..Len(Processed(i)) :
             /\ Processed(i)[h].type = "error"
             /\ \A g \in 1..(h - 1) : Processed(i)[g].type # "error"
  IN Processed(i)[k].message

\* C1: an error event terminates the stream. Once call i has processed an
\* error event, the message of that event is shown as the error of the query
\* (the error suffix of its assistant message), and no later step in which
\* the call is still reading changes its assistant message.
C1_ErrorEventTerminates ==
  [][\A i \in 1..MaxCalls :
       (calls[i].pc = "read" /\ ErrorSeen(i)) =>
         /\ messages[AsstIdx(i)].content # <<>>
         /\ messages[AsstIdx(i)].content[Len(messages[AsstIdx(i)].content)]
              = ErrorText(SeenError(i))
         /\ (calls'[i].pc = "read" => messages'[AsstIdx(i)] = messages[AsstIdx(i)])]_vars

\* C2: a user message is immutable once created: no step changes the content
\* or the sources of a message with role "user".
C2_UserMessageImmutable ==
  [][\A j \in 1..Len(messages) :
       messages[j].role = "user" =>
         /\ messages'[j].content = messages[j].content
         /\ messages'[j].sources = messages[j].sources]_vars

\* C3: the assistant message of a call starts with empty content and is
\* append-only while the stream of the call is running: each step leaves the
\* previous content as a prefix of the new content.
C3_AssistantAppendOnly ==
  [][\A i \in 1..MaxCalls :
       /\ (~Started(i) /\ Started(i)') => messages'[AsstIdx(i)].content = <<>>
       /\ (Started(i) /\ ~Ended(i)) =>
            IsPrefix(messages[AsstIdx(i)].content, messages'[AsstIdx(i)].content)]_vars

\* C4: an assistant message is frozen once its stream has terminated: after
\* the call that created it has ended, no step changes its content or sources.
C4_AssistantFrozen ==
  [][\A i \in 1..MaxCalls :
       Ended(i) =>
         /\ messages'[AsstIdx(i)].content = messages[AsstIdx(i)].content
         /\ messages'[AsstIdx(i)].sources = messages[AsstIdx(i)].sources]_vars

\* C5: cancellation is not a failure: the step in which an aborted call
\* handles its AbortError changes no message, so no error text is added and
\* the content streamed so far stays as it was.
C5_AbortAddsNoError ==
  [][\A i \in 1..MaxCalls :
       (calls[i].pc = "aborting" /\ calls'[i].pc = "aborted") => messages' = messages]_vars

\* A call was aborted while reading, after a content event had been shown.
C5_Witness ==
  \E i \in 1..MaxCalls :
    /\ calls[i].pc = "aborted"
    /\ messages[AsstIdx(i)].content = <<Text("a")>>

\* The concatenation of the content deltas of a sequence of events.
RECURSIVE DeltasOf(_)
DeltasOf(evs) ==
  IF evs = <<>> THEN <<>>
  ELSE (IF Head(evs).type = "content" THEN <<Text(Head(evs).delta)>> ELSE <<>>)
         \o DeltasOf(Tail(evs))

\* The array of the last sources event of a sequence of events.
RECURSIVE SourcesOf(_)
SourcesOf(evs) ==
  IF evs = <<>> THEN <<>>
  ELSE IF evs[Len(evs)].type = "sources" THEN evs[Len(evs)].sources
  ELSE SourcesOf(SubSeq(evs, 1, Len(evs) - 1))

\* C10: when the stream of a call completes, the sources of its assistant
\* message are the array of the sources event and its content is the
\* concatenation of all content deltas, wherever the sources event was.
C10_CompleteHasSourcesAndContent ==
  [][\A i \in 1..MaxCalls :
       (calls[i].pc = "read" /\ calls'[i].pc = "completed") =>
         /\ messages'[AsstIdx(i)].sources = SourcesOf(Sent(i))
         /\ messages'[AsstIdx(i)].content = DeltasOf(Sent(i))]_vars

(* --------------------- claims on the request and the files ------------ *)

AllFields == {"message", "file_ids", "user_id", "chat_history"}

\* C6: every streaming request has the four fields message, file_ids, user_id
\* and chat_history, its file_ids is null or a non-empty array, and its user_id
\* is the user id kept in localStorage, never missing and never empty.
C6_RequestBodyComplete ==
  nCalls > 0 =>
    /\ lastRequest.keys = AllFields
    /\ lastRequest.null_ids \/ lastRequest.file_ids # {}
    /\ lastRequest.user_id \notin {Undefined, "", NoId}
    /\ lastRequest.user_id = storage

\* A step that sends the first message of the page.
Sends == nCalls' = nCalls + 1

\* The request the page would send with the files ids selected.
RequestWith(ids) == Body(lastRequest'.message, ids, closure.userId)

\* C7, as stated: a query sent while no file is selected has the same scope as
\* one sent while all the listed files are selected.
C7_NullSameAsAllListed ==
  [][(Sends /\ selectedFileIds = {}) =>
       Scope(lastRequest', registry) = Scope(RequestWith(files), registry)]_vars

\* C7, amended: the query is sent with file_ids = null exactly when no file is
\* selected; its scope then is every registered file, the scope of a query that
\* lists every registered id, and that is the scope of a query with all the
\* listed files selected when every registered file is listed.
C7_NullScopeIsRegistry ==
  [][Sends =>
       /\ lastRequest'.null_ids <=> (selectedFileIds = {})
       /\ selectedFileIds = {} =>
            /\ Scope(lastRequest', registry) = registry
            /\ Scope(lastRequest', registry) = Scope(RequestWith(registry), registry)
            /\ registry \subseteq files =>
                 Scope(lastRequest', registry) = Scope(RequestWith(files), registry)]_vars

\* A query was sent with null while files were listed and none was selected.
C7_Witness ==
  /\ nCalls = 1
  /\ lastRequest.null_ids
  /\ selectedFileIds = {}
  /\ files # {}
  /\ registry = files

\* C8: in the React client the selection, and so the file_ids of a query, holds
\* only ids of the loaded files, whatever loads, uploads, deletes, toggles,
\* select-all and deselect-all came before.
C8_SelectionSubsetOfFiles ==
  [][/\ selectedFileIds' \subseteq files'
     /\ Sends => lastRequest'.file_ids \subseteq files]_vars

\* A file was deleted and the list loaded again, the other file is selected
\* and was sent in a query.
C8_Witness ==
  /\ nextFile = 3
  /\ registry = {2}
  /\ files = {2}
  /\ selectedFileIds = {2}
  /\ lastRequest.file_ids = {2}
  /\ loads = <<>>

\* File f was uploaded and then deleted on the server.
Deleted(f) == f < nextFile /\ f \notin registry

\* C9: in the static client, once a file is deleted and the loads have left
\* the list without it, none being in flight, the file is no longer in selectedFileIds and is in the
\* file_ids of no later query: the ids sent are ids of the list.
C9_StaticDeletedNotSent ==
  [][\A f \in 1..MaxFiles :
       (Deleted(f) /\ f \notin files' /\ loads' = <<>>) =>
         /\ (\E k \in 1..MaxLoads : StaticLoadOk(k)) => f \notin selectedFileIds'
         /\ (\E input \in Inputs : StaticSendMessage(input)) =>
              f \notin lastRequest'.file_ids]_vars

(* ------------------------- claims on the sources ---------------------- *)

\* How often x occurs in the sequence s.
Count(x, s) == Cardinality({k \in 1..Len(s) : s[k] = x})

IsPermutation(s, t) ==
  /\ Len(s) = Len(t)
  /\ \A k \in 1..Len(s) : Count(s[k], s) = Count(s[k], t)

NonIncreasing(s) == \A k \in 1..(Len(s) - 1) : s[k].score >= s[k + 1].score

\* C11: the sources shown for an assistant message are a permutation of the
\* sources received for it, and their scores do not increase from first to
\* last, in whatever order they were received.
C11_RenderedSourcesRanked ==
  [][Render =>
       \A j \in 1..Len(messages) :
         /\ IsPermutation(messages'[j].sources, messages[j].sources)
         /\ NonIncreasing(messages'[j].sources)
         /\ (j = AsstIdx(1) /\ calls[1].pc = "read") =>
              IsPermutation(messages'[j].sources, SourcesOf(Processed(1)))]_vars

\* The sources arrived lowest first and are shown ranked, the tie in the
\* order received.
C11_Witness ==
  /\ calls[1].pc = "read"
  /\ SourcesOf(Processed(1)) = <<SrcLow, SrcHigh, SrcTie>>
  /\ messages[AsstIdx(1)].sources = <<SrcHigh, SrcTie, SrcLow>>

(* ------------------------- claims on the upload ----------------------- *)

\* onUploadSuccess ran in this step: Home counts a refresh.
UploadSucceeded == refreshTrigger' = refreshTrigger + 1

\* C12: a dropped file larger than 15728640 bytes or of a type other than
\* .txt, .pdf, .docx, .md is refused by the upload component: onDrop shows an
\* error message, sends no upload request and does not call onUploadSuccess.
C12_RejectedFileNotSent ==
  [][\A file \in DroppedFiles :
       (OnDrop(file) /\ (file.size > MaxUploadSize \/ file.ext \notin AcceptedExts)) =>
         /\ upMessage' \in ErrorMessages
         /\ upload' = upload
         /\ uploading' = uploading
         /\ ~UploadSucceeded
         /\ UNCHANGED <<registry, loads, showUpload>>]_vars

\* A refused file left its message while nothing was ever sent or registered.
C12_Witness ==
  /\ showUpload
  /\ upMessage \in {"error: too large", "error: invalid type"}
  /\ upload = NoUpload
  /\ nextFile = 1
  /\ refreshTrigger = 0

\* C13: an upload answered with a non-OK response, as that of a 0-byte file
\* is, registers nothing; the client shows the error, resets uploading and
\* does not call onUploadSuccess, so that the list, the selection and the
\* loads stay as they are; onUploadSuccess is called once for each upload the
\* server accepts and for no other.
C13_FailedUploadShown ==
  [][/\ UploadFail =>
          /\ upMessage' \in ErrorMessages
          /\ uploading' = FALSE
          /\ ~UploadSucceeded
          /\ UNCHANGED <<registry, files, listFiles, selectedFileIds, loads>>
     /\ (upload.st # "none" /\ upload.file.size = 0) =>
          /\ registry' = registry
          /\ ~UploadSucceeded
     /\ UploadSucceeded <=> nextFile' = nextFile + 1]_vars

(* ------------------------- claims on the delete ----------------------- *)

\* C14: once the delete of f has succeeded, a list load that completes with
\* the list the server has since then leaves f neither in the file list nor in
\* the selection, in the React client and in the static client; and a delete
\* of a file already deleted succeeds and changes nothing on the server.
C14_DeleteComplete ==
  [][\A f \in 1..MaxFiles :
       /\ \A k \in 1..MaxLoads :
            ((LoadOk(k) \/ StaticLoadOk(k)) /\ Deleted(f) /\ f \notin loads[k].data) =>
              /\ f \notin files'
              /\ f \notin listFiles'
              /\ f \notin selectedFileIds'
       /\ ((DeleteOk(f) \/ StaticDeleteOk(f)) /\ Deleted(f)) => registry' = registry]_vars

(* ------------------------ claims on the query's end ------------------- *)

\* What a failed sendMessage can have caught.
ChatErrors == {"request failed", "no response stream", "network error"}

\* C15: a call of sendMessage that passed the guard ends in exactly one of
\* completed, failed and aborted, and stays there. The step that ends it as
\* completed has read the stream to its end and changes no message; as failed,
\* appends the error suffix to its assistant message; as aborted, changes no
\* message. Each of the three resets isLoading to false.
C15_OneTerminalState ==
  [][\A i \in 1..MaxCalls :
       /\ Ended(i) => calls'[i] = calls[i]
       /\ (Started(i) /\ ~Ended(i) /\ calls'[i].pc \in {"completed", "failed", "aborted"}) =>
            /\ isLoading' = FALSE
            /\ calls'[i].pc = "completed" =>
                 /\ calls[i].pc = "read"
                 /\ calls[i].pos = Len(calls[i].resp)
                 /\ messages' = messages
            /\ calls'[i].pc = "failed" =>
                 /\ \E e \in ChatErrors :
                      messages'[AsstIdx(i)] =
                        [messages[AsstIdx(i)] EXCEPT
                           !.content = messages[AsstIdx(i)].content \o <<ErrorText(e)>>]
                 /\ \A j \in 1..Len(messages) :
                      messages[j].id # calls[i].id => messages'[j] = messages[j]
            /\ calls'[i].pc = "aborted" =>
                 /\ calls[i].pc = "aborting"
                 /\ messages' = messages]_vars

\* Three calls ended, one in each terminal state, and a next query can be
\* sent as far as isLoading goes.
C15_Witness ==
  /\ {calls[i].pc : i \in 1..MaxCalls} = {"completed", "failed", "aborted"}
  /\ ~isLoading

(* ------------------------- claims on the server ----------------------- *)

\* C16: a query whose client dropped the connection while it was streaming
\* never completes: the server cancels the completion call when it ends the
\* query as aborted, and nothing is remembered for it. Memory is written only
\* by a completed query, for its own exchange.
C16_AbortedNotRemembered ==
  [][/\ (~query.conn /\ query.st = "streaming" /\ query'.id = query.id) =>
          query'.st \in {"streaming", "aborted", "failed"}
     /\ query'.st = "aborted" =>
          /\ query'.up # "running"
          /\ query'.id \notin memory'
     /\ memory' # memory =>
          /\ query.st = "completed"
          /\ query' = [query EXCEPT !.rem = TRUE]
          /\ memory' = memory \cup {query.id}]_vars

\* The first query was remembered, the second was aborted while streaming
\* and its completion call cancelled.
C16_Witness ==
  /\ query.st = "aborted"
  /\ query.up = "cancelled"
  /\ query.id \notin memory
  /\ memory # {}

C18_ChunkCountExact ==
  \A f \in 1..MaxFiles :
    IF f \in registry
    THEN chunkCount[f] = Cardinality(ChunksOf(store, f)) /\ chunkCount[f] > 0
    ELSE chunkCount[f] = 0 /\ ChunksOf(store, f) = {}

\* A file was re-processed into fewer chunks than it had, and another file
\* was deleted.
C18_Witness ==
  \E f \in registry, g \in 1..MaxFiles :
    /\ Deleted(g)
    /\ chunkCount[f] = 1
    /\ \E c \in ChunksOf(store, f) : c.gen = 1

\* C19: a search never retrieves a half-replaced chunk set: the chunks it
\* retrieves of a file are all the chunks of the one generation the store
\* holds, as many as the registry counts, also while the file is being
\* re-processed.
C19_SearchSeesWholeSets ==
  [][Retrieve =>
       \A f \in 1..MaxFiles :
         LET h == ChunksOf(query'.hits, f)
         IN h = {} \/ /\ h = ChunksOf(store, f)
                      /\ \E g \in {0, 1} : h = NewChunks(f, g, chunkCount[f])]_vars

\* A search retrieved the chunks of a re-processed file while that file is
\* being re-processed again.
C19_Witness ==
  /\ query.st = "composing"
  /\ job.st = "embedding"
  /\ \E c \in query.hits : c.file = job.file /\ c.gen = 1

(* ----------------------- claims on the selection ---------------------- *)

\* C20: in the React client every list load that succeeds, the one of the
\* mount, of an upload or of a delete, leaves the list it loaded as the files
\* of Home and of FileList and selects all of them, whatever was selected.
C20_LoadSelectsAll ==
  [][\A k \in 1..MaxLoads :
       LoadOk(k) =>
         /\ files' = loads[k].data
         /\ listFiles' = files'
         /\ selectedFileIds' = files'
         /\ error' = NoError
         /\ ~loading']_vars

\* Two files were uploaded, every load has completed and both are selected.
C20_Witness ==
  /\ refreshTrigger = 2
  /\ loads = <<>>
  /\ files = {1, 2}
  /\ selectedFileIds = {1, 2}
  /\ ListShown

(* --------------------- claims on the guard and the ids ---------------- *)

\* C21: a sendMessage call made with an empty or blank input, or made while
\* isLoading is true, does nothing: a step that appends the two messages and
\* sends a request is made only with a non-blank input and while isLoading is
\* false.
C21_GuardedCallDoesNothing ==
  [][Sends => /\ Trim(lastRequest'.message) # <<>>
              /\ ~isLoading]_vars

\* C23: while the stream or the fetch of a call is pending, isLoading is true
\* and abortControllerRef holds the controller of that call, so that at most
\* one call is pending at a time.
C23_LoadingTracksStream ==
  \A i \in 1..MaxCalls : Running(i) => (isLoading /\ abortRef = i)

\* C24: no two messages of the conversation have the same id.
C24_IdsDistinct ==
  \A j, k \in 1..Len(messages) : j # k => messages[j].id # messages[k].id

\* C22: the user id is created at random and stored only while localStorage
\* holds none; a stored id is never overwritten; the mount of the Home with a
\* user id sets the stored id as its user id; every query of the static
\* client carries the stored id as user_id.
C22_UserIdPersists ==
  [][
     /\ storage # NoId => storage' = storage
     /\ (storage = NoId /\ storage' # NoId) => storage' \in RandomIds
     /\ (home = StaticClient /\ lastRequest' # lastRequest)
          => /\ "user_id" \in lastRequest'.keys
             /\ lastRequest'.user_id = storage'
             /\ storage' # NoId
     /\ (home = "part_002" /\ ~mounted /\ mounted')
          => (userId' = storage' /\ storage' # NoId)
    ]_vars

\* An id of an earlier visit is still stored after the page has started and a
\* query was sent with it.
C22_Witness ==
  /\ home = StaticClient
  /\ mounted
  /\ lastRequest # NoRequest
  /\ storage = "user_old"
  /\ lastRequest.user_id = "user_old"

(* ------------------------- claims on the stream ----------------------- *)

\* The complete lines of the first pos characters of a response.
CompleteLines(resp, pos) ==
  LET parts == Split(SubSeq(resp, 1, pos))
  IN SubSeq(parts, 1, Len(parts) - 1)

\* What one read of the first pos characters of a response gives for the
\* assistant message id.
SingleRead(resp, pos, id) ==
  ProcessLines([cc |-> <<>>, cs |-> <<>>, msgs |-> <<AssistantMessage(id)>>], id,
               CompleteLines(resp, pos))

\* C25: however the response was cut into reads, the content and the sources
\* a call has accumulated, the incomplete line it keeps and, for a single
\* call, the content and the sources of its assistant message are those of
\* one read of everything received so far.
C25_CutsDoNotMatter ==
  \A i \in 1..MaxCalls :
    calls[i].pc = "read" =>
      LET c == calls[i]
          parts == Split(SubSeq(c.resp, 1, c.pos))
          one == SingleRead(c.resp, c.pos, c.id)
      IN /\ c.cc = one.cc
         /\ c.cs = one.cs
         /\ c.buffer = parts[Len(parts)]
         /\ nCalls = 1 =>
              /\ messages[AsstIdx(1)].content = one.msgs[1].content
              /\ SortByScore(messages[AsstIdx(1)].sources) = SortByScore(one.msgs[1].sources)

\* A read has ended in the middle of the last line, before its newline, after
\* the lines before it were processed.
C25_Witness ==
  /\ nCalls = 1
  /\ calls[1].pc = "read"
  /\ calls[1].resp = RespNoise
  /\ calls[1].pos = Len(RespNoise) - 1
  /\ calls[1].buffer = <<DATA, JSON(SourcesEv(SrcArray))>>
  /\ messages[AsstIdx(1)].content = <<Text("a"), Text("b")>>

\* C26: when the reader reports done, every "data: " line of the response has
\* been applied, the last one also when no newline follows it.
C26_NoEventLostAtEnd ==
  [][\A i \in 1..MaxCalls :
       (calls[i].pc = "read" /\ calls'[i].pc = "completed")
         => /\ calls[i].cc = DeltasOf(EventsOf(Split(calls[i].resp)))
            /\ calls[i].cs = SourcesOf(EventsOf(Split(calls[i].resp)))]_vars

\* The lines of a response completed by the characters p + 1 .. q: the
\* complete lines of the first q characters without those of the first p.
NewLines(resp, p, q) ==
  SubSeq(CompleteLines(resp, q), Len(CompleteLines(resp, p)) + 1, Len(CompleteLines(resp, q)))

\* A line the loop skips: blank, without the prefix, or not JSON.
Malformed(line) ==
  \/ IsBlank(line)
  \/ ~StartsWithData(line)
  \/ ~JSONParse(Tail(line)).ok

HasErrorText(content) == \E k \in 1..Len(content) : content[k].t = "error"

\* C27: a read whose new lines are all blank, without the "data: " prefix or
\* not JSON leaves the messages as they are; no read adds an error text; and
\* every read adds the deltas of the valid lines it completes, those after a
\* malformed line too.
C27_MalformedLineSkipped ==
  [][\A i \in 1..MaxCalls :
       (calls[i].pc = "read" /\ calls'[i].pc = "read" /\ calls'[i].pos > calls[i].pos)
         => \A new \in {NewLines(calls[i].resp, calls[i].pos, calls'[i].pos)} :
              /\ (\A k \in 1..Len(new) : Malformed(new[k])) => messages' = messages
              /\ calls'[i].cc = calls[i].cc \o DeltasOf(EventsOf(new))
              /\ \A j \in 1..Len(messages') :
                   HasErrorText(messages'[j].content) => HasErrorText(messages[j].content)]_vars

\* The four malformed lines were read and the content event after them was
\* applied.
C27_Witness ==
  /\ nCalls = 1
  /\ calls[1].pc = "read"
  /\ calls[1].resp = RespNoise
  /\ calls[1].cc = <<Text("a"), Text("b")>>
  /\ calls[1].cs = <<>>
  /\ messages[AsstIdx(1)].content = <<Text("a"), Text("b")>>

(* ------------------------ claims on the file list ---------------------- *)

\* C28: the response of a list load that a later started load has overtaken
\* changes neither the file list nor the selection, so that after the last
\* response the list and the selection are those of the load started last.
C28_LatestLoadWins ==
  [][\A k \in 1..MaxLoads :
       (k <= Len(loads) /\ loads[k].overtaken /\ LoadOk(k))
         => /\ files' = files
            /\ listFiles' = listFiles
            /\ selectedFileIds' = selectedFileIds]_vars

\* The file list is not empty and every listed file is selected.
AllListedSelected == files # {} /\ files \subseteq selectedFileIds

\* The selection with the membership of f changed and no other.
Flipped(f) == (selectedFileIds \ {f}) \cup ({f} \ selectedFileIds)

\* C29: toggleFileSelection(f), in the React list and in the static client,
\* changes the membership of f and of no other id (so that a second toggle
\* restores the selection); isAllSelected is true exactly when the list is not
\* empty and every listed file is selected; the select-all control empties the
\* selection when every listed file is selected and selects exactly the
\* listed files otherwise.
C29_SelectionOperations ==
  [][
     /\ \A f \in 1..MaxFiles :
          (ToggleFileSelection(f) \/ StaticToggleFileSelection(f))
            => selectedFileIds' = Flipped(f)
     /\ home \in Homes => (IsAllSelected <=> AllListedSelected)
     /\ HandleDeselectAll => (AllListedSelected /\ selectedFileIds' = {})
     /\ HandleSelectAll => (~AllListedSelected /\ selectedFileIds' = files)
    ]_vars

\* Two files are listed and a toggle has left only one of them selected.
C29_Witness ==
  /\ home \in Homes
  /\ files = {1, 2}
  /\ selectedFileIds = {2}

\* C30: a list load that fails keeps the files and the selection, sets the
\* error and ends loading; a delete that is not confirmed sends no request; a
\* delete that fails starts no load and keeps the files and the selection.
C30_FailureKeepsList ==
  [][
     /\ \A k \in 1..MaxLoads :
          LoadFail(k) => /\ files' = files
                         /\ listFiles' = listFiles
                         /\ selectedFileIds' = selectedFileIds
                         /\ error' # NoError
                         /\ loading' = FALSE
     /\ \A f \in 1..MaxFiles :
          DeleteDeclined(f) => /\ deletes' = deletes
                               /\ loads' = loads
                               /\ registry' = registry
     /\ \A f \in 1..MaxFiles :
          DeleteFail(f) => /\ loads' = loads
                           /\ registry' = registry
                           /\ files' = files
                           /\ listFiles' = listFiles
                           /\ selectedFileIds' = selectedFileIds
    ]_vars

\* A reload has failed while a file was listed and selected: the file and the
\* selection are still there, with the error.
C30_Witness ==
  /\ home \in Homes
  /\ error # NoError
  /\ ~loading
  /\ files # {}
  /\ selectedFileIds # {}
  /\ loads = <<>>

====
